---------------------------- MODULE Spec2Model ----------------------------
(***************************************************************************)
(* Model of kite_telegram_bot.py: the token file (save_tokens,             *)
(* load_tokens), ensure_tokens_valid, the Flask /callback route and the    *)
(* command loop (main, snapshot_cmd).                                      *)
(*                                                                         *)
(* Two execution contexts share the token file and the global `kite`:      *)
(*   - the command loop (main thread): main's startup validation, then     *)
(*     one /snapshot handler at a time;                                    *)
(*   - the callback listener (Flask thread started by main).               *)
(* Every step that touches the file or calls the brokerage is one action,  *)
(* so the two contexts interleave between those steps.                     *)
(*                                                                         *)
(* Python values are modelled as strings: a token is its text, "" is the   *)
(* empty string, a datetime object for clock value n is DateTime(n) and    *)
(* its ISO text is IsoFormat(DateTime(n)).  A dict is a function whose     *)
(* domain is the set of keys present.                                      *)
(***************************************************************************)
EXTENDS Integers, Sequences, FiniteSets, TLC

\* ------------------------------------------------------------- bounds
\* Largest clock value (the clock stops there).
MaxClock == 1
\* Longest per-invocation call trail that is recorded.
MaxTrail == 6
\* Longest holdings list handed to _format_table_html.
MaxRows == 2

\* ------------------------------------------------------------- values
\* Python's None.
None == "None"
\* "This key is not in the dict", used only to enumerate dicts.
Absent == "<absent>"

AccessTokens == {"a1", "a2"}
\* The brokerage returns an empty refresh_token for some sessions.
RefreshTokens == {"", "r1"}

Times == (0 - 1) .. (MaxClock + 1)

\* A datetime object for clock value n.
DateTime(n) == "datetime:" \o ToString(n)

IsDateTime(v) == \E n \in Times : v = DateTime(n)

\* datetime.isoformat()
IsoFormat(v) == "iso:" \o ToString(CHOOSE n \in Times : v = DateTime(n))

IsIso(v) == \E n \in Times : v = IsoFormat(DateTime(n))

\* timedelta(days=1), in clock ticks
OneDay == 1

\* datetime.fromisoformat(v) inside load_tokens' try/except: a text that
\* does not parse becomes "one day ago".
ParseSavedAt(v, t) ==
    IF IsIso(v)
    THEN DateTime(CHOOSE n \in Times : v = IsoFormat(DateTime(n)))
    ELSE DateTime(t - OneDay)

\* Python truthiness of a value read with dict.get
Truthy(v) == v # None /\ v # ""

\* ------------------------------------------------------------- dicts
EmptyDict == [k \in {} |-> ""]

\* dict.get(k)
Get(d, k) == IF k \in DOMAIN d THEN d[k] ELSE None

\* The dict with the given fields; Absent leaves the key out.
MkDict(a, r, l) ==
    [k \in (IF a = Absent THEN {} ELSE {"access_token"})
           \cup (IF r = Absent THEN {} ELSE {"refresh_token"})
           \cup (IF l = Absent THEN {} ELSE {"login_time"})
       |-> CASE k = "access_token" -> a
             [] k = "refresh_token" -> r
             [] OTHER -> l]

\* What generate_session may return: the SDK sets login_time to a datetime.
Sessions ==
    {MkDict(a, r, DateTime(0)) :
        a \in AccessTokens \cup {Absent}, r \in RefreshTokens \cup {Absent}}

\* What renew_access_token may return (plain JSON, both fields optional).
RenewResponses ==
    {MkDict(a, r, Absent) :
        a \in AccessTokens \cup {Absent}, r \in RefreshTokens \cup {Absent}}

\* Variant of MergeNewWins: on a key collision the old value is kept.
MergeOldWins(saved, newdata) ==
    [k \in DOMAIN saved \cup DOMAIN newdata |->
        IF k \in DOMAIN saved THEN saved[k] ELSE newdata[k]]

\* {**saved, **newdata}
MergeNewWins(saved, newdata) ==
    [k \in DOMAIN saved \cup DOMAIN newdata |->
        IF k \in DOMAIN newdata THEN newdata[k] ELSE saved[k]]

\* ------------------------------------------------------------- token file
\* The file is missing, empty (just truncated by open(.., "w")), garbled
\* (bytes of two overlapping writes) or the JSON text of a dict.
File(kind, data) == [kind |-> kind, data |-> data]

Missing == File("missing", EmptyDict)
Empty == File("empty", EmptyDict)
Garbled == File("garbled", EmptyDict)
Json(d) == File("json", d)

\* Variant of ToSerializable: a saved_at the dict carries is kept.
ToSerializableKeepStamp(d, t) ==
    [k \in DOMAIN d \cup {"saved_at"} |->
        IF k \notin DOMAIN d THEN IsoFormat(DateTime(t))
        ELSE IF IsDateTime(d[k]) THEN IsoFormat(d[k])
        ELSE d[k]]

\* _to_serializable(d) at clock value t
ToSerializable(d, t) ==
    [k \in DOMAIN d \cup {"saved_at"} |->
        IF k = "saved_at" THEN IsoFormat(DateTime(t))
        ELSE IF IsDateTime(d[k]) THEN IsoFormat(d[k])
        ELSE d[k]]

\* Variant of OpenForWrite: the old file is removed before the new one is
\* written.
OpenForWriteUnlink(f) == Missing

\* open(TOKENS_FILE, "w"): creates or truncates the file.
OpenForWrite(f) == Empty

\* json.dump(...) and close, by a writer that opened the file earlier: the
\* text lands at offset 0.  If another writer wrote since the file was
\* truncated, its longer text may stick out behind the new one.
WriteOutcomes(f, d, t) ==
    IF f.kind = "empty"
    THEN {Json(ToSerializable(d, t))}
    ELSE {Json(ToSerializable(d, t)), Garbled}

\* The outcome of a call that may raise: it returns None, returns a dict
\* or raises.
Outcome(kind, value) == [kind |-> kind, value |-> value]

ReturnedNone == Outcome("none", EmptyDict)
Raised == Outcome("raised", EmptyDict)
Returned(d) == Outcome("dict", d)

\* load_tokens() at clock value t: None if the file does not exist;
\* json.load raises on text that is not JSON; saved_at is parsed back.
LoadTokens(f, t) ==
    IF f.kind = "missing" THEN ReturnedNone
    ELSE IF f.kind # "json" THEN Raised
    ELSE Returned([k \in DOMAIN f.data |->
                     IF k = "saved_at" THEN ParseSavedAt(f.data[k], t)
                     ELSE f.data[k]])

\* `not saved` / `if load_tokens()`: None and the empty dict are falsy.
Falsy(ld) == ld.kind = "none" \/ (ld.kind = "dict" /\ ld.value = EmptyDict)

\* ------------------------------------------------------------- table
\* Amounts are integers counting fifths of a paisa (0.002 rupee): 50000 is
\* 100.00, 55000 is 110.00 and 55001 is 110.002.  A product of two amounts
\* and a quantity stays a whole number of fifths, and rendering with two
\* decimals rounds it to the nearest paisa, which is never a tie.  Binary
\* floating point error is not modelled.
HoldingKeys == {"quantity", "average_price", "last_price"}

\* Values kite.holdings() may carry under key k.
HoldingValues(k) ==
    CASE k = "quantity" -> {1, 10}
      [] k = "average_price" -> {50000, 55001}
      [] k = "last_price" -> {50000, 55000}

\* A holding is a dict; any of the keys the formatter reads may be missing.
\* tradingsymbol is copied to the row as it is and is left out.
HoldingDicts ==
    UNION {{h \in [ks -> UNION {HoldingValues(k) : k \in HoldingKeys}] :
               \A k \in ks : h[k] \in HoldingValues(k)} :
           ks \in SUBSET HoldingKeys}

HoldingLists == UNION {[1 .. n -> HoldingDicts] : n \in 1 .. MaxRows}

\* h.get(k, default)
GetOr(h, k, default) == IF k \in DOMAIN h THEN h[k] ELSE default

\* Line 146: qty = h.get("quantity", 0)
Qty(h) == GetOr(h, "quantity", 0)
\* Line 147: avg = h.get("average_price", 0.0) or 0.0
Avg(h) == LET v == GetOr(h, "average_price", 0) IN IF v = 0 THEN 0 ELSE v
\* Line 148: ltp = h.get("last_price", 0.0) or 0.0
Ltp(h) == LET v == GetOr(h, "last_price", 0) IN IF v = 0 THEN 0 ELSE v

\* Lines 149-152: float() of a number never raises, so the except branch is
\* not taken for these holdings.
RowPnl(h) == (Ltp(h) - Avg(h)) * Qty(h)

\* Variant of Indicator: zero is shown as a loss.
IndicatorStrict(pnl) == IF pnl > 0 THEN "green" ELSE "red"

\* Lines 154 and 157: the green circle if pnl >= 0, else the red circle.
Indicator(pnl) == IF pnl >= 0 THEN "green" ELSE "red"

\* The format spec .2f: an amount in fifths of a paisa rendered in paise,
\* rounded to the nearest.
Fmt2f(u) == IF u >= 0 THEN (u + 2) \div 5 ELSE 0 - ((2 - u) \div 5)

\* Line 155: one table row.
RenderRow(h) ==
    [qty |-> Qty(h), avg |-> Fmt2f(Avg(h)), ltp |-> Fmt2f(Ltp(h)),
     emoji |-> Indicator(RowPnl(h)), pnl |-> Fmt2f(RowPnl(h))]

\* Lines 143-158: the loop over holdings, which accumulates total_pnl, and
\* then the TOTAL row.
RECURSIVE FormatLoop(_, _, _, _)
FormatLoop(hs, i, rows, total_pnl) ==
    IF i > Len(hs)
    THEN [rows |-> rows,
          total |-> [emoji |-> Indicator(total_pnl), pnl |-> Fmt2f(total_pnl)]]
    ELSE FormatLoop(hs, i + 1, Append(rows, RenderRow(hs[i])),
                    total_pnl + RowPnl(hs[i]))

FormatTableHtml(hs) == FormatLoop(hs, 1, <<>>, 0)

\* No table has been rendered.
NoTable == [rows |-> <<>>, total |-> [emoji |-> "-", pnl |-> 0]]

\* ------------------------------------------------------------- state
VARIABLES
    tokens_file,  \* the content of tokens.json
    kite,         \* the access token of the global client, None before any
    now,          \* the clock
    pc,           \* where the command loop is
    caller,       \* who called ensure_tokens_valid: "main" or "snapshot"
    saved,        \* ensure_tokens_valid's local `saved`
    newdata,      \* ensure_tokens_valid's local `newdata`
    merged,       \* ensure_tokens_valid's local `merged`
    written,      \* the dict ensure_tokens_valid's save_tokens dumped
    loaded,       \* how the last load_tokens call ended
    result,       \* how the last ensure_tokens_valid call ended
    reply,        \* what the last /snapshot handler sent
    trail,        \* brokerage and file calls of this ensure_tokens_valid call
    kite0,        \* `kite` when this ensure_tokens_valid call began
    stamp,        \* the clock when the store harness last called save_tokens
    overlap,      \* a callback save completed between this call's load and
                  \* its open-for-write
    cb_pc,        \* where the callback listener is
    session,      \* callback's local `session`
    response,     \* the HTTP status of the last callback request
    cb_trail,     \* brokerage and file calls of this callback request
    holdings,     \* the list handed to _format_table_html
    table         \* the rows and the TOTAL row _format_table_html rendered

cmdVars == <<pc, caller, saved, newdata, merged, written, loaded, result, reply,
             trail, kite0, stamp>>
cbVars == <<cb_pc, session, response, cb_trail>>
tblVars == <<holdings, table>>
vars == <<tokens_file, kite, now, cmdVars, overlap, cbVars, tblVars>>

\* Append to a call trail, which is recorded up to MaxTrail entries.
Log(t, e) == IF Len(t) < MaxTrail THEN Append(t, e) ELSE t

Has(t, e) == \E i \in 1 .. Len(t) : t[i] = e

Count(t, e) == Cardinality({i \in 1 .. Len(t) : t[i] = e})

\* Files a previous run of the program may have left behind.
InitialFiles == {Missing} \cup {Json(ToSerializable(s, 0)) : s \in Sessions}

Init ==
    /\ tokens_file \in InitialFiles
    /\ kite = None
    /\ now = 0
    /\ pc = "main_load"
    /\ caller = "main"
    /\ saved = EmptyDict
    /\ newdata = EmptyDict
    /\ merged = EmptyDict
    /\ written = EmptyDict
    /\ loaded = "-"
    /\ result = "-"
    /\ reply = "-"
    /\ trail = <<>>
    /\ kite0 = None
    /\ stamp = 0
    /\ overlap = FALSE
    /\ cb_pc = "listening"
    /\ session = EmptyDict
    /\ response = "-"
    /\ cb_trail = <<>>
    /\ holdings = <<>>
    /\ table = NoTable

\* ------------------------------------------------------------- clock
Tick ==
    /\ pc # "crashed"
    /\ now < MaxClock
    /\ now' = now + 1
    /\ UNCHANGED <<tokens_file, kite, cmdVars, overlap, cbVars, tblVars>>

\* ------------------------------------------------------------- command loop
\* The locals of a finished ensure_tokens_valid call go out of scope.
DropLocals ==
    /\ saved' = EmptyDict
    /\ newdata' = EmptyDict
    /\ merged' = EmptyDict
    /\ written' = EmptyDict
    /\ trail' = <<>>

\* Entering ensure_tokens_valid from `who`.
CallEnsure(who) ==
    /\ pc' = "ensure_load"
    /\ caller' = who
    /\ result' = "-"
    /\ kite0' = kite
    /\ stamp' = stamp
    /\ overlap' = FALSE
    /\ DropLocals

\* main, line 189: `if load_tokens():`.  An exception here ends the process
\* before the bot starts.
MainLoad ==
    /\ pc = "main_load"
    /\ LET ld == LoadTokens(tokens_file, now) IN
        /\ loaded' = ld.kind
        /\ IF ld.kind = "raised"
           THEN /\ pc' = "crashed"
                /\ UNCHANGED <<stamp, caller, saved, newdata, merged, written, result,
                               trail, kite0, overlap>>
           ELSE IF Falsy(ld)
           THEN /\ pc' = "polling"
                /\ UNCHANGED <<stamp, caller, saved, newdata, merged, written, result,
                               trail, kite0, overlap>>
           ELSE CallEnsure("main")
    /\ UNCHANGED <<tokens_file, kite, now, reply, cbVars, tblVars>>

\* A /snapshot command arrives: snapshot_cmd, line 164.
SnapshotCmd ==
    /\ pc = "polling"
    /\ CallEnsure("snapshot")
    /\ reply' = "-"
    /\ UNCHANGED <<tokens_file, kite, now, loaded, cbVars, tblVars>>

\* Variant of NoRecordResult: the missing record is reported as usable.
NoRecordResultReady == "ready"

\* ensure_tokens_valid, line 76: what `if not saved` returns.
NoRecordResult == "not_ready"

\* Variant of RefreshStep: the refresh_token check is skipped.
RefreshStepUnchecked(s) == [pc |-> "renew", result |-> "-"]

\* ensure_tokens_valid, lines 86-89: without a usable access token, renew
\* only if the record has a refresh token.
RefreshStep(s) ==
    IF Truthy(Get(s, "refresh_token"))
    THEN [pc |-> "renew", result |-> "-"]
    ELSE [pc |-> "ensure_ret", result |-> "not_ready"]

\* ensure_tokens_valid, lines 79-80: probe only a truthy access token.
AfterLoad(s) ==
    IF Truthy(Get(s, "access_token"))
    THEN [pc |-> "probe", result |-> "-"]
    ELSE RefreshStep(s)

\* ensure_tokens_valid, lines 74-80 and 87-89.
EnsureLoad ==
    /\ pc = "ensure_load"
    /\ LET ld == LoadTokens(tokens_file, now) IN
        /\ loaded' = ld.kind
        /\ trail' = Log(trail, "load")
        /\ IF ld.kind = "raised"
           THEN /\ pc' = "ensure_ret"
                /\ result' = "raised"
                /\ saved' = saved
           ELSE IF Falsy(ld)
           THEN /\ pc' = "ensure_ret"
                /\ result' = NoRecordResult
                /\ saved' = saved
           ELSE /\ pc' = AfterLoad(ld.value).pc
                /\ result' = AfterLoad(ld.value).result
                /\ saved' = ld.value
    /\ UNCHANGED <<tokens_file, kite, now, stamp, caller, newdata, merged, written,
                   reply, kite0, overlap, cbVars, tblVars>>

\* Variant of AfterProbe: the record is renewed whatever the probe said.
AfterProbeAlwaysRenew(ok, s) == RefreshStep(s)

\* ensure_tokens_valid, lines 80-84 and 87-89, after is_access_token_valid
\* returned `ok`.
AfterProbe(ok, s) ==
    IF ok THEN [pc |-> "ensure_ret", result |-> "ready"] ELSE RefreshStep(s)

\* The token the global client is built from when the probe passed (line 83).
ProbedToken(s) == s["access_token"]

\* is_access_token_valid(access_token), lines 61-67: kite.profile() passes or
\* raises (expired, revoked, network), and the function returns True or False.
Probe ==
    /\ pc = "probe"
    /\ \E ok \in BOOLEAN :
        /\ trail' = Log(trail, IF ok THEN "probe_ok" ELSE "probe_failed")
        /\ pc' = AfterProbe(ok, saved).pc
        /\ result' = AfterProbe(ok, saved).result
        /\ kite' = IF AfterProbe(ok, saved).result = "ready"
                   THEN ProbedToken(saved) ELSE kite
    /\ UNCHANGED <<tokens_file, now, stamp, caller, saved, newdata, merged, written,
                   loaded, reply, kite0, overlap, cbVars, tblVars>>

\* Variant of RenewFailedPc: a failed renewal is tried again.
RenewFailedPcRetry == "renew"

\* ensure_tokens_valid, lines 101-103: where a failed renewal leads.
RenewFailedPc == "ensure_ret"

\* Variant of Merged: the record is read again from the file before merging.
MergedFromFile(s, n) ==
    MergeNewWins(IF tokens_file.kind = "json"
                 THEN LoadTokens(tokens_file, now).value
                 ELSE s, n)

\* ensure_tokens_valid, line 96: merged = {**saved, **newdata}
Merged(s, n) == MergeNewWins(s, n)

\* ensure_tokens_valid, lines 92-96: renew_access_token returns a dict or
\* raises; the response is merged into the record loaded at line 74.
Renew ==
    /\ pc = "renew"
    /\ \E r \in {Raised} \cup {Returned(n) : n \in RenewResponses} :
        IF r.kind = "raised"
        THEN /\ trail' = Log(trail, "renew_failed")
             /\ pc' = RenewFailedPc
             /\ result' = "not_ready"
             /\ UNCHANGED <<newdata, merged>>
        ELSE /\ trail' = Log(trail, "renew_ok")
             /\ pc' = "save_open"
             /\ result' = result
             /\ newdata' = r.value
             /\ merged' = Merged(saved, r.value)
    /\ UNCHANGED <<tokens_file, kite, now, stamp, caller, saved, written, loaded,
                   reply, kite0, overlap, cbVars, tblVars>>

\* save_tokens(merged), line 44: open(TOKENS_FILE, "w")
SaveOpen ==
    /\ pc = "save_open"
    /\ tokens_file' = OpenForWrite(tokens_file)
    /\ pc' = "save_write"
    /\ UNCHANGED <<kite, now, stamp, caller, saved, newdata, merged, written, loaded,
                   result, reply, trail, kite0, overlap, cbVars, tblVars>>

\* ensure_tokens_valid, lines 99-103: merged["access_token"] raises KeyError
\* when the key is missing, and the except clause returns False.
AfterSave(m) ==
    IF "access_token" \in DOMAIN m
    THEN [result |-> "ready", kite |-> m["access_token"]]
    ELSE [result |-> "not_ready", kite |-> kite]

\* save_tokens(merged), line 45, then lines 99-103.
SaveWrite ==
    /\ pc = "save_write"
    /\ tokens_file' \in WriteOutcomes(tokens_file, merged, now)
    /\ written' = ToSerializable(merged, now)
    /\ trail' = Log(trail, "save")
    /\ result' = AfterSave(merged).result
    /\ kite' = AfterSave(merged).kite
    /\ pc' = "ensure_ret"
    /\ UNCHANGED <<now, stamp, caller, saved, newdata, merged, loaded, reply, kite0,
                   overlap, cbVars, tblVars>>

\* ensure_tokens_valid returns (or raises) to main, lines 191-194: main
\* prints and goes on to start the bot; an exception ends the process.
MainReturn ==
    /\ pc = "ensure_ret"
    /\ caller = "main"
    /\ pc' = IF result = "raised" THEN "crashed" ELSE "polling"
    /\ DropLocals
    /\ UNCHANGED <<tokens_file, kite, now, stamp, caller, loaded, result, reply,
                   kite0, overlap, cbVars, tblVars>>

\* ensure_tokens_valid returns (or raises) to snapshot_cmd, lines 164-167.
\* The call is outside the handler's try block: an exception leaves the
\* handler without a reply (the dispatcher logs it and keeps polling).
SnapshotReturn ==
    /\ pc = "ensure_ret"
    /\ caller = "snapshot"
    /\ IF result = "ready"
       THEN /\ pc' = "holdings"
            /\ UNCHANGED <<reply, saved, newdata, merged, written, trail>>
       ELSE /\ pc' = "polling"
            /\ reply' = IF result = "raised" THEN "escaped" ELSE "relogin"
            /\ DropLocals
    /\ UNCHANGED <<tokens_file, kite, now, stamp, caller, loaded, result, kite0,
                   overlap, cbVars, tblVars>>

\* snapshot_cmd, lines 169-177: kite.holdings() raises, returns nothing or
\* returns rows.
Holdings ==
    /\ pc = "holdings"
    /\ \E h \in {"raised", "empty", "rows"} :
        reply' = CASE h = "raised" -> "error"
                   [] h = "empty" -> "no_holdings"
                   [] OTHER -> "table"
    /\ pc' = "polling"
    /\ DropLocals
    /\ UNCHANGED <<tokens_file, kite, now, stamp, caller, loaded, result, kite0,
                   overlap, cbVars, tblVars>>

\* ------------------------------------------------------------- callback
\* callback, lines 113-115: without a request_token the answer is 400.
CbRequest ==
    /\ pc # "crashed"
    /\ cb_pc = "listening"
    /\ \E has_token \in BOOLEAN :
        /\ cb_pc' = IF has_token THEN "exchange" ELSE "listening"
        /\ response' = IF has_token THEN "-" ELSE "400"
    /\ session' = EmptyDict
    /\ cb_trail' = <<>>
    /\ UNCHANGED <<tokens_file, kite, now, cmdVars, overlap, tblVars>>

\* Variant of ExchangeFailedPc: the session is saved whatever the exchange did.
ExchangeFailedPcSave == "cb_open"

\* callback, lines 121-122: where a failed exchange leads.
ExchangeFailedPc == "listening"

\* callback, lines 117-118 and 121-122: generate_session returns the session
\* dict or raises.
CbExchange ==
    /\ pc # "crashed"
    /\ cb_pc = "exchange"
    /\ \E r \in {Raised} \cup {Returned(x) : x \in Sessions} :
        IF r.kind = "raised"
        THEN /\ cb_trail' = Log(cb_trail, "exchange_failed")
             /\ cb_pc' = ExchangeFailedPc
             /\ response' = "500"
             /\ session' = session
        ELSE /\ cb_trail' = Log(cb_trail, "exchange_ok")
             /\ cb_pc' = "cb_open"
             /\ response' = response
             /\ session' = r.value
    /\ UNCHANGED <<tokens_file, kite, now, cmdVars, overlap, tblVars>>

\* save_tokens(session), line 44: open(TOKENS_FILE, "w")
CbOpen ==
    /\ pc # "crashed"
    /\ cb_pc = "cb_open"
    /\ tokens_file' = OpenForWrite(tokens_file)
    /\ cb_pc' = "cb_write"
    /\ UNCHANGED <<kite, now, cmdVars, overlap, session, response, cb_trail, tblVars>>

\* save_tokens(session), line 45, then line 120.
CbWrite ==
    /\ pc # "crashed"
    /\ cb_pc = "cb_write"
    /\ tokens_file' \in WriteOutcomes(tokens_file, session, now)
    /\ cb_trail' = Log(cb_trail, "save")
    /\ response' = "200"
    /\ cb_pc' = "listening"
    /\ overlap' = (overlap \/ pc \in {"probe", "renew", "save_open"})
    /\ UNCHANGED <<kite, now, cmdVars, session, tblVars>>

\* ------------------------------------------------------------- specification
Next ==
    \/ Tick
    \/ MainLoad
    \/ SnapshotCmd
    \/ EnsureLoad
    \/ Probe
    \/ Renew
    \/ SaveOpen
    \/ SaveWrite
    \/ MainReturn
    \/ SnapshotReturn
    \/ Holdings
    \/ CbRequest
    \/ CbExchange
    \/ CbOpen
    \/ CbWrite

Spec == Init /\ [][Next]_vars

\* ------------------------------------------------------------- properties
Renewals(t) == Count(t, "renew_ok") + Count(t, "renew_failed")

Probes(t) == Count(t, "probe_ok") + Count(t, "probe_failed")

\* C1: in one ensure_tokens_valid call the renewal endpoint is called at most
\* once; it is called exactly once when the probe failed and the record has a
\* refresh token; a failed renewal is the call's last brokerage or file call
\* and the call returns not_ready.
C1_RenewOnce ==
    /\ Renewals(trail) <= 1
    /\ Probes(trail) <= 1
    /\ Has(trail, "renew_failed") =>
          /\ trail[Len(trail)] = "renew_failed"
          /\ pc = "ensure_ret"
          /\ result = "not_ready"
    /\ (/\ pc = "ensure_ret"
        /\ Has(trail, "probe_failed")
        /\ Truthy(Get(saved, "refresh_token"))) => Renewals(trail) = 1

C1_Witness ==
    /\ pc = "ensure_ret"
    /\ trail = <<"load", "probe_failed", "renew_failed">>
    /\ result = "not_ready"

\* C2: when the loaded record's access token passes the probe, the call
\* returns ready at once, with no renewal and no save, and the global client
\* holds exactly the cached access token.
C2_ProbePassed ==
    Has(trail, "probe_ok") =>
        /\ pc \in {"ensure_ret", "holdings"}
        /\ result = "ready"
        /\ trail = <<"load", "probe_ok">>
        /\ written = EmptyDict
        /\ "access_token" \in DOMAIN saved
        /\ kite = saved["access_token"]

C2_Witness ==
    /\ pc = "ensure_ret"
    /\ Has(trail, "probe_ok")
    /\ result = "ready"
    /\ kite0 = "a1"
    /\ kite = "a2"

\* C5: when the token file does not exist, the call returns not_ready having
\* made no probe, no renewal and no save, and the global client is the one it
\* found.
C5_NoRecord ==
    (pc = "ensure_ret" /\ loaded = "none") =>
        /\ result = "not_ready"
        /\ trail = <<"load">>
        /\ written = EmptyDict
        /\ kite = kite0

C5_Witness ==
    /\ pc = "ensure_ret"
    /\ loaded = "none"
    /\ caller = "snapshot"
    /\ tokens_file = Missing
    /\ result = "not_ready"

\* C9: a loaded record without a (non-empty) refresh token whose access token
\* is missing or failed the probe gives not_ready with no renewal call; a
\* record without an access token is never probed and gives ready only after
\* a renewal.
C9_NoRefreshToken ==
    /\ (/\ pc = "ensure_ret"
        /\ saved # EmptyDict
        /\ ~Truthy(Get(saved, "refresh_token"))
        /\ ~Has(trail, "probe_ok")) =>
            /\ result = "not_ready"
            /\ Renewals(trail) = 0
            /\ written = EmptyDict
            /\ kite = kite0
    /\ (saved # EmptyDict /\ ~Truthy(Get(saved, "access_token"))) =>
            /\ Probes(trail) = 0
            /\ result = "ready" => Has(trail, "renew_ok")

C9_Witness ==
    /\ pc = "ensure_ret"
    /\ "access_token" \in DOMAIN saved
    /\ "refresh_token" \notin DOMAIN saved
    /\ trail = <<"load", "probe_failed">>
    /\ result = "not_ready"

\* C3: load_tokens never raises.
C3_LoadNeverRaises == loaded # "raised"

\* C4: no error escapes an operation: main's startup validation does not end
\* the process and every /snapshot handler ends in a reply.
C4_NoErrorEscapes == pc # "crashed" /\ reply # "escaped"

\* The step in which ensure_tokens_valid's save_tokens writes the file.
RefreshSaveStep == pc = "save_write" /\ pc' = "ensure_ret"

\* The file holds, key by key, the renewal response's value where the
\* response has the key and the loaded record's value elsewhere, saved_at
\* aside, which is a fresh stamp.
FileIsFieldwiseMerge ==
    /\ tokens_file.kind = "json"
    /\ DOMAIN tokens_file.data
          = DOMAIN saved \cup DOMAIN newdata \cup {"saved_at"}
    /\ \A k \in DOMAIN newdata : tokens_file.data[k] = newdata[k]
    /\ \A k \in DOMAIN saved \ (DOMAIN newdata \cup {"saved_at"}) :
          tokens_file.data[k] = saved[k]
    /\ tokens_file.data["saved_at"] = IsoFormat(DateTime(now))

CallbackStep == cbVars' # cbVars

C8_LostUpdate ==
    [][(RefreshSaveStep /\ overlap /\ tokens_file'.kind = "json") =>
          \A k \in {"access_token", "refresh_token", "login_time"} :
              Get(tokens_file'.data, k)
                 = IF k \in DOMAIN newdata THEN newdata[k] ELSE Get(saved, k)]_vars

C8_Witness ==
    /\ pc = "ensure_ret"
    /\ overlap
    /\ Has(trail, "save")
    /\ cb_pc = "listening"
    /\ response = "200"
    /\ tokens_file = Json(written)
    /\ Get(saved, "access_token") = "a1"
    /\ Get(newdata, "access_token") = "a1"
    /\ Get(session, "access_token") = "a2"
    /\ Get(tokens_file.data, "access_token") = "a1"

\* ------------------------------------------------------------- token store alone
\* save_tokens and load_tokens called from one context, in any order, on a
\* store that was never written.
StorePcs == {"store", "store_saved", "store_loaded"}

\* Dicts handed to save_tokens: a session or a renewal response, possibly
\* merged into a loaded record, which carries the saved_at it was loaded with.
StoreRecords ==
    LET fresh == Sessions \cup RenewResponses IN
    fresh \cup {MergeNewWins([saved_at |-> DateTime(n)], d) :
                   d \in fresh, n \in 0 .. MaxClock}

StoreInit ==
    /\ tokens_file = Missing
    /\ kite = None
    /\ now = 0
    /\ pc = "store"
    /\ caller = "main"
    /\ saved = EmptyDict
    /\ newdata = EmptyDict
    /\ merged = EmptyDict
    /\ written = EmptyDict
    /\ loaded = "-"
    /\ result = "-"
    /\ reply = "-"
    /\ trail = <<>>
    /\ kite0 = None
    /\ stamp = 0
    /\ overlap = FALSE
    /\ cb_pc = "listening"
    /\ session = EmptyDict
    /\ response = "-"
    /\ cb_trail = <<>>
    /\ holdings = <<>>
    /\ table = NoTable

\* save_tokens(d), lines 43-45, with nothing running in between.
StoreSave ==
    /\ pc \in StorePcs
    /\ \E d \in StoreRecords :
        /\ merged' = d
        /\ tokens_file' \in WriteOutcomes(OpenForWrite(tokens_file), d, now)
    /\ stamp' = now
    /\ pc' = "store_saved"
    /\ saved' = EmptyDict
    /\ loaded' = "-"
    /\ UNCHANGED <<kite, now, caller, newdata, written, result, reply, trail,
                   kite0, overlap, cbVars, tblVars>>

\* saved = load_tokens(), lines 47-58.
StoreLoad ==
    /\ pc \in StorePcs
    /\ LET ld == LoadTokens(tokens_file, now) IN
        /\ loaded' = ld.kind
        /\ saved' = ld.value
    /\ pc' = "store_loaded"
    /\ UNCHANGED <<tokens_file, kite, now, caller, newdata, merged, written,
                   result, reply, trail, kite0, stamp, overlap, cbVars, tblVars>>

StoreTick ==
    /\ pc \in StorePcs
    /\ now < MaxClock
    /\ now' = now + 1
    /\ UNCHANGED <<tokens_file, kite, cmdVars, overlap, cbVars, tblVars>>

StoreNext ==
    \/ StoreSave
    \/ StoreLoad
    \/ StoreTick

SpecStore == StoreInit /\ [][StoreNext]_vars

\* C10: a load that follows a save returns a dict whose access_token and
\* refresh_token are those handed to save and whose saved_at is the clock of
\* that save, whatever saved_at the dict handed to save carried.
C10_RoundTrip ==
    (pc = "store_loaded" /\ tokens_file # Missing) =>
        /\ loaded = "dict"
        /\ Get(saved, "access_token") = Get(merged, "access_token")
        /\ Get(saved, "refresh_token") = Get(merged, "refresh_token")
        /\ "saved_at" \in DOMAIN saved
        /\ saved["saved_at"] = DateTime(stamp)

C10_Witness ==
    /\ pc = "store_loaded"
    /\ loaded = "dict"
    /\ Get(merged, "access_token") = "a2"
    /\ Get(merged, "refresh_token") = "r1"
    /\ Get(merged, "saved_at") = DateTime(0)
    /\ stamp = 1
    /\ now = 1
    /\ saved["saved_at"] = DateTime(1)

\* ------------------------------------------------------------- snapshot replies
\* A /snapshot handler has just finished.
SnapshotDone == pc = "polling" /\ caller = "snapshot"

\* C11: every /snapshot handler sends exactly one reply, chosen by what
\* ensure_tokens_valid returned: the re-login instruction on not_ready (and
\* then kite.holdings() is not called), and on ready the "no holdings"
\* message, the table or the error message.
C11_OneReply ==
    /\ pc = "holdings" => result = "ready"
    /\ SnapshotDone =>
          /\ reply \in {"relogin", "no_holdings", "table", "error"}
          /\ reply = "relogin" <=> result = "not_ready"
          /\ reply \in {"no_holdings", "table", "error"} <=> result = "ready"

\* ------------------------------------------------------------- store lifetime
\* Neither context is between save_tokens' open and its write.
NoSaveInProgress == pc # "save_write" /\ cb_pc # "cb_write"

\* C12 as stated: once the store holds a complete record, every step that
\* ends with no save in progress leaves a complete record in it.
C12_Original ==
    [][(tokens_file.kind = "json" /\ NoSaveInProgress') =>
          tokens_file'.kind = "json"]_vars

\* C12, amended: the token file is never deleted once it exists; it changes
\* only inside a save that follows a successful exchange or renewal; the
\* save truncates it and then writes a complete record stamped with the
\* current clock, and only a write that overlaps another save can leave
\* unparseable bytes instead.
C12_NeverDeleted ==
    [][/\ tokens_file.kind # "missing" => tokens_file'.kind # "missing"
       /\ tokens_file' # tokens_file =>
             /\ pc' # pc =>
                   /\ Has(trail, "renew_ok")
                   /\ ~Has(trail, "renew_failed")
                   /\ pc \in {"save_open", "save_write"}
             /\ pc' = pc =>
                   /\ Has(cb_trail, "exchange_ok")
                   /\ ~Has(cb_trail, "exchange_failed")
                   /\ cb_pc \in {"cb_open", "cb_write"}
             /\ \/ /\ tokens_file' = Empty
                   /\ ~NoSaveInProgress'
                \/ /\ tokens_file'.kind = "json"
                   /\ "saved_at" \in DOMAIN tokens_file'.data
                   /\ tokens_file'.data["saved_at"] = IsoFormat(DateTime(now))
                \/ /\ tokens_file' = Garbled
                   /\ tokens_file.kind \in {"json", "garbled"}]_vars

C12_Witness ==
    /\ tokens_file.kind = "json"
    /\ tokens_file.data["saved_at"] = IsoFormat(DateTime(1))
    /\ Get(tokens_file.data, "access_token") = "a2"
    /\ NoSaveInProgress
    /\ response = "500"
    /\ result = "not_ready"

\* ------------------------------------------------------------- the client handle
\* C14: when ensure_tokens_valid returns ready, the token in the global
\* client passed this call's probe or is the access_token of this call's
\* renewal response.
C14_HandleValidated ==
    (pc = "ensure_ret" /\ result = "ready") =>
        \/ /\ Has(trail, "probe_ok")
           /\ kite = Get(saved, "access_token")
        \/ /\ Has(trail, "renew_ok")
           /\ "access_token" \in DOMAIN newdata
           /\ kite = newdata["access_token"]

\* C15: when ensure_tokens_valid returns not_ready it has saved nothing and
\* the global client is the one it found.
C15_NotReadyNoEffect ==
    (pc = "ensure_ret" /\ result = "not_ready") =>
        /\ ~Has(trail, "save")
        /\ written = EmptyDict
        /\ kite = kite0

\* C16: a load_tokens call made by the command loop while the callback is
\* between save_tokens' open and its write returns None or a complete
\* record.
C16_LoadSeesCompleteStore ==
    [][(/\ pc \in {"main_load", "ensure_load"}
        /\ pc' # pc
        /\ cb_pc = "cb_write") => loaded' \in {"none", "dict"}]_vars

\* ------------------------------------------------ the table on its own
\* _format_table_html applied to every holdings list up to MaxRows rows.
TableInit ==
    /\ tokens_file = Missing
    /\ kite = None
    /\ now = 0
    /\ pc = "table"
    /\ caller = "snapshot"
    /\ saved = EmptyDict
    /\ newdata = EmptyDict
    /\ merged = EmptyDict
    /\ written = EmptyDict
    /\ loaded = "-"
    /\ result = "ready"
    /\ reply = "-"
    /\ trail = <<>>
    /\ kite0 = None
    /\ stamp = 0
    /\ overlap = FALSE
    /\ cb_pc = "listening"
    /\ session = EmptyDict
    /\ response = "-"
    /\ cb_trail = <<>>
    /\ holdings \in HoldingLists
    /\ table = NoTable

\* snapshot_cmd, lines 174-175: html_msg = _format_table_html(holdings),
\* then the reply.
FormatTable ==
    /\ pc = "table"
    /\ table' = FormatTableHtml(holdings)
    /\ reply' = "table"
    /\ pc' = "table_sent"
    /\ UNCHANGED <<tokens_file, kite, now, caller, saved, newdata, merged,
                   written, loaded, result, trail, kite0, stamp, overlap,
                   cbVars, holdings>>

TableNext == FormatTable

SpecTable == TableInit /\ [][TableNext]_vars

\* (last price - average price) * quantity of a holding, a missing field
\* counting as zero.
ProfitLoss(h) ==
    LET F(k) == IF k \in DOMAIN h THEN h[k] ELSE 0
    IN (F("last_price") - F("average_price")) * F("quantity")

RECURSIVE SignedSum(_, _)
SignedSum(hs, n) ==
    IF n = 0 THEN 0 ELSE SignedSum(hs, n - 1) + ProfitLoss(hs[n])

\* paise is amount (in fifths of a paisa) shown to the nearest paisa.
ShownAs(paise, amount) == 5 * paise - amount \in -2 .. 2

\* C13: the rendered table has one row per holding; each row shows
\* (last price - average price) * quantity, to two decimals, with the up
\* indicator iff that value is >= 0 and the down indicator otherwise; the
\* TOTAL row shows the signed sum of those values over all holdings, to two
\* decimals, with the indicator of the sum.
C13_TablePnl ==
    pc = "table_sent" =>
        /\ Len(table.rows) = Len(holdings)
        /\ \A i \in 1 .. Len(holdings) :
              /\ ShownAs(table.rows[i].pnl, ProfitLoss(holdings[i]))
              /\ table.rows[i].emoji = "green" <=> ProfitLoss(holdings[i]) >= 0
              /\ table.rows[i].emoji = "red" <=> ProfitLoss(holdings[i]) < 0
        /\ ShownAs(table.total.pnl, SignedSum(holdings, Len(holdings)))
        /\ table.total.emoji = "green" <=> SignedSum(holdings, Len(holdings)) >= 0
        /\ table.total.emoji = "red" <=> SignedSum(holdings, Len(holdings)) < 0

\* The single row ABC, quantity 10, average 100.00, last price 110.00, is
\* rendered as 100.00 up with total 100.00 up.
C13_Witness ==
    /\ pc = "table_sent"
    /\ holdings = <<[quantity |-> 10, average_price |-> 50000,
                     last_price |-> 55000]>>
    /\ table.rows[1].pnl = 10000
    /\ table.rows[1].emoji = "green"
    /\ table.total = [emoji |-> "green", pnl |-> 10000]

=============================================================================
